---- MODULE Spec2Model ----
(***************************************************************************)
(* A model of the PDF generator's size-control pipeline                    *)
(* (src/pdf_generator): FileSizeInflator, PDFGenerator, ImageGenerator,    *)
(* ContentGenerator and DatabaseManager.                                   *)
(*                                                                         *)
(* Text is a sequence of one-character strings; a file is its size in      *)
(* bytes split into the encoder's bytes, the marker and the filler; an     *)
(* Optional[int] is the empty set (None) or a singleton.                   *)
(***************************************************************************)
EXTENDS Integers, Sequences, FiniteSets, TLC

VARIABLES
    pc,               \* the phase generate_all_pdfs is in
    use_image,        \* PDFGenerator.use_image
    data_rows,        \* the rows get_all_rows returned
    row_index,        \* the index enumerate() is at
    generated_files,  \* generate_all_pdfs' list of returned paths
    files,            \* the output directory: filename -> file
    log,              \* what was printed: warnings and per-row errors
    calls,            \* per row, what _generate_single_pdf did
    failed_from,      \* the phase an exception escaped from
    arg,              \* the input of the function under test
    res               \* its result

vars == <<pc, use_image, data_rows, row_index, generated_files, files, log,
          calls, failed_from, arg, res>>

orch_vars == <<pc, use_image, data_rows, row_index, generated_files, files,
               log, calls, failed_from>>

(***************************************************************************)
(* Bounds of the model                                                     *)
(***************************************************************************)
MaxRows == 2
MaxPieces == 3

(***************************************************************************)
(* Text helpers                                                            *)
(***************************************************************************)
UpperLetters == <<"A","B","C","D","E","F","G","H","I","J","K","L","M",
                  "N","O","P","Q","R","S","T","U","V","W","X","Y","Z">>
LowerLetters == <<"a","b","c","d","e","f","g","h","i","j","k","l","m",
                  "n","o","p","q","r","s","t","u","v","w","x","y","z">>
DigitChars == <<"0","1","2","3","4","5","6","7","8","9">>

Range(s) == {s[k] : k \in DOMAIN s}

UpperSet == Range(UpperLetters)

\* str.lower() on one character
lower_char(c) ==
    IF c \in UpperSet
    THEN LowerLetters[CHOOSE k \in 1..26 : UpperLetters[k] = c]
    ELSE c

\* str.lower()
lower(s) == [k \in DOMAIN s |-> lower_char(s[k])]

\* str.endswith(suffix)
endswith(s, suffix) ==
    /\ Len(s) >= Len(suffix)
    /\ SubSeq(s, Len(s) - Len(suffix) + 1, Len(s)) = suffix

\* s contains sub as a substring
contains(s, sub) ==
    \E k \in 1..(Len(s) - Len(sub) + 1) : SubSeq(s, k, k + Len(sub) - 1) = sub

\* the regular expression classes \w and \s, on the characters of the model
WordChars == Range(UpperLetters) \cup Range(LowerLetters)
                 \cup Range(DigitChars) \cup {"_"}
WhiteSpace == {" ", "\t"}
is_word(c) == c \in WordChars
is_space(c) == c \in WhiteSpace

\* the least and the greatest element of a non-empty set of integers
Min(S) == CHOOSE k \in S : \A j \in S : k <= j
Max(S) == CHOOSE k \in S : \A j \in S : j <= k

\* str.strip(chars): the leading and trailing characters in cs removed
lstrip_chars(s, cs) ==
    IF \A k \in DOMAIN s : s[k] \in cs THEN <<>>
    ELSE SubSeq(s, CHOOSE k \in DOMAIN s :
                      s[k] \notin cs /\ \A j \in 1..(k - 1) : s[j] \in cs, Len(s))
rstrip_chars(s, cs) ==
    IF \A k \in DOMAIN s : s[k] \in cs THEN <<>>
    ELSE SubSeq(s, 1, CHOOSE k \in DOMAIN s :
                      s[k] \notin cs /\ \A j \in (k + 1)..Len(s) : s[j] \in cs)
strip_chars(s, cs) == rstrip_chars(lstrip_chars(s, cs), cs)

\* str.strip(): surrounding whitespace removed
strip_ws(s) == strip_chars(s, WhiteSpace)

\* os.path.basename (posix): what follows the last '/'
basename(s) ==
    LET slashes == {k \in DOMAIN s : s[k] = "/"}
    IN  IF slashes = {} THEN s
        ELSE SubSeq(s, Max(slashes) + 1, Len(s))

\* re.sub(r'[^\w\s\-_.]', '_', s)
replace_invalid(s) ==
    [k \in DOMAIN s |->
        IF is_word(s[k]) \/ is_space(s[k]) \/ s[k] \in {"-", "_", "."}
        THEN s[k] ELSE "_"]

\* re.sub(r'[\s_]+', '_', s): every maximal run becomes one underscore
RECURSIVE collapse_runs(_)
collapse_runs(s) ==
    LET seps == {k \in DOMAIN s : is_space(s[k]) \/ s[k] = "_"}
    IN  IF seps = {} THEN s
        ELSE LET first == Min(seps)
                 rest == lstrip_chars(SubSeq(s, first, Len(s)), WhiteSpace \cup {"_"})
             IN  SubSeq(s, 1, first - 1) \o <<"_">> \o collapse_runs(rest)

MaxNameLen == 200
Document == <<"d","o","c","u","m","e","n","t">>
DotPdf == <<".","p","d","f">>

\* _sanitize_filename without its strip('_.') step
sanitize_filename_nostrip(filename) ==
    LET collapsed == collapse_runs(replace_invalid(basename(filename)))
        nonempty == IF collapsed = <<>> THEN Document ELSE collapsed
    IN  IF Len(nonempty) > MaxNameLen THEN SubSeq(nonempty, 1, MaxNameLen)
        ELSE nonempty

\* PDFGenerator._sanitize_filename
sanitize_filename(filename) ==
    LET based == basename(filename)
        replaced == replace_invalid(based)
        collapsed == collapse_runs(replaced)
        stripped == strip_chars(collapsed, {"_", "."})
        nonempty == IF stripped = <<>> THEN Document ELSE stripped
    IN  IF Len(nonempty) > MaxNameLen THEN SubSeq(nonempty, 1, MaxNameLen)
        ELSE nonempty

\* str(row_index)
RECURSIVE int_str(_)
int_str(n) == IF n < 10 THEN <<DigitChars[n + 1]>>
              ELSE int_str(n \div 10) \o <<DigitChars[(n % 10) + 1]>>

\* An Optional value: None is the empty set, a value v is {v}
None == {}
Some(v) == {v}
TheValue(opt) == CHOOSE v \in opt : TRUE

\* PDFGenerator._generate_single_pdf, lines 95-103: the row's file name
resolve_filename(custom_filename, index) ==
    IF custom_filename # None /\ TheValue(custom_filename) # <<>>
    THEN LET filename == sanitize_filename(strip_ws(TheValue(custom_filename)))
         IN  IF endswith(lower(filename), DotPdf) THEN filename
             ELSE filename \o DotPdf
    ELSE int_str(index) \o DotPdf

(***************************************************************************)
(* FileSizeInflator (src/pdf_generator/inflation.py)                       *)
(*                                                                         *)
(* A raw file_size value is [kind, tenths]: "null" is None, "num" is a     *)
(* number or numeric text worth tenths/10, "text" is text float() rejects, *)
(* "nan" is text float() reads as NaN, "inf" is text float() reads as an   *)
(* infinity ('inf', '-inf', '1e999').                                      *)
(***************************************************************************)
Raw(kind, tenths) == [kind |-> kind, tenths |-> tenths]

\* int(float(...)) on a finite value: truncation toward zero
int_of_tenths(n) == IF n >= 0 THEN n \div 10 ELSE -((-n) \div 10)

InvalidSizeWarning(value, index) ==
    [kind |-> "invalid_file_size", value |-> value, row |-> index]

\* parse_file_size that returns the coerced value whatever its sign
parse_file_size_any_sign(file_size_value, index) ==
    CASE file_size_value.kind = "null" ->
            [exc |-> "none", target_kb |-> None, printed |-> <<>>]
      [] file_size_value.kind = "num" ->
            LET target_kb == int_of_tenths(file_size_value.tenths)
            IN  [exc |-> "none",
                 target_kb |-> IF target_kb >= 0 THEN Some(target_kb)
                               ELSE Some(-target_kb),
                 printed |-> <<>>]
      [] file_size_value.kind \in {"text", "nan"} ->
            [exc |-> "none", target_kb |-> None,
             printed |-> <<InvalidSizeWarning(file_size_value, index)>>]
      [] OTHER ->
            [exc |-> "OverflowError", target_kb |-> None, printed |-> <<>>]

\* parse_file_size whose except clause is missing: ValueError escapes too
parse_file_size_uncaught(file_size_value, index) ==
    CASE file_size_value.kind = "null" ->
            [exc |-> "none", target_kb |-> None, printed |-> <<>>]
      [] file_size_value.kind = "num" ->
            LET target_kb == int_of_tenths(file_size_value.tenths)
            IN  [exc |-> "none",
                 target_kb |-> IF target_kb > 0 THEN Some(target_kb) ELSE None,
                 printed |-> <<>>]
      [] file_size_value.kind \in {"text", "nan"} ->
            [exc |-> "ValueError", target_kb |-> None, printed |-> <<>>]
      [] OTHER ->
            [exc |-> "OverflowError", target_kb |-> None, printed |-> <<>>]

\* FileSizeInflator.parse_file_size: float() raises ValueError on "text",
\* int() raises ValueError on NaN and OverflowError on an infinity; only
\* ValueError and TypeError are caught.
parse_file_size(file_size_value, index) ==
    CASE file_size_value.kind = "null" ->
            [exc |-> "none", target_kb |-> None, printed |-> <<>>]
      [] file_size_value.kind = "num" ->
            LET target_kb == int_of_tenths(file_size_value.tenths)
            IN  [exc |-> "none",
                 target_kb |-> IF target_kb > 0 THEN Some(target_kb) ELSE None,
                 printed |-> <<>>]
      [] file_size_value.kind \in {"text", "nan"} ->
            [exc |-> "none", target_kb |-> None,
             printed |-> <<InvalidSizeWarning(file_size_value, index)>>]
      [] OTHER ->
            [exc |-> "OverflowError", target_kb |-> None, printed |-> <<>>]

\* Python truthiness of an Optional[int]
Truthy(opt) == opt # None /\ TheValue(opt) # 0

\* A file: the bytes the encoder wrote, then the marker, then the filler
File(name, encoded, marker, filler, writer) ==
    [name |-> name, encoded |-> encoded, marker |-> marker, filler |-> filler,
     writer |-> writer]
getsize(f) == f.encoded + f.marker + f.filler

KB == 1024
MarkerLen == 29        \* len(b'\n% Load testing padding data\n')
HeaderAccount == 30    \* "remaining = padding_needed - 30"
ChunkSize == 65536

min2(a, b) == IF a <= b THEN a ELSE b

\* the while loop of inflate_to_target_size: the bytes of filler written
RECURSIVE write_chunks(_, _, _)
write_chunks(remaining, chunk_len, written) ==
    IF remaining > 0
    THEN LET write_size == min2(chunk_len, remaining)
         IN  write_chunks(remaining - write_size, chunk_len, written + write_size)
    ELSE written

\* inflate_to_target_size opening the file with 'wb' in place of 'ab'
inflate_to_target_size_rewriting(f, target_kb) ==
    IF getsize(f) >= target_kb * KB THEN f
    ELSE [f EXCEPT !.encoded = 0, !.marker = MarkerLen,
                   !.filler = Max({0, target_kb * KB - getsize(f) - HeaderAccount})]

\* FileSizeInflator.inflate_to_target_size
inflate_to_target_size(f, target_kb) ==
    LET target_bytes == target_kb * KB
        current_size == getsize(f)
        padding_needed == target_bytes - current_size
        remaining == padding_needed - HeaderAccount
    IN  IF current_size >= target_bytes THEN f
        ELSE [f EXCEPT !.marker = @ + MarkerLen,
                       !.filler = @ + (IF remaining > 0
                                       THEN write_chunks(remaining,
                                                min2(ChunkSize, remaining), 0)
                                       ELSE 0)]

abs(x) == IF x < 0 THEN -x ELSE x

\* check_target_accuracy comparing with >= in place of >
check_target_accuracy_inclusive(f, target_kb, filename) ==
    IF abs(getsize(f) - target_kb * KB) * 10 >= target_kb * KB
    THEN <<[kind |-> "target_accuracy", name |-> filename,
            target_kb |-> target_kb, size |-> getsize(f)]>>
    ELSE <<>>

\* FileSizeInflator.check_target_accuracy with tolerance 0.1: what it prints
\* (abs(size/1024 - target_kb) > target_kb * 0.1, in exact arithmetic)
check_target_accuracy(f, target_kb, filename) ==
    IF abs(getsize(f) - target_kb * KB) * 10 > target_kb * KB
    THEN <<[kind |-> "target_accuracy", name |-> filename,
            target_kb |-> target_kb, size |-> getsize(f)]>>
    ELSE <<>>

(***************************************************************************)
(* ContentGenerator, ImageGenerator and the per-row pipeline of            *)
(* PDFGenerator.  The encoders are external libraries: the size of what    *)
(* they write (natural) and whether a step raises (fault) are inputs.      *)
(***************************************************************************)
PaddingThreshold == 50000
FillerBlocks == 3

\* ContentGenerator.add_padding_content: the number of filler blocks added
add_padding_content(target_bytes) ==
    IF target_bytes <= PaddingThreshold THEN 0 ELSE FillerBlocks

\* Scale factors are kept as multiples of 1/ScaleDen, which is exact for
\* t/250 and t/100.
ScaleDen == 500

\* _calculate_scale_factor with 'target_kb >= 500' as its first test
calculate_scale_factor_inclusive(target_kb) ==
    IF target_kb >= 500 THEN min2(4 * ScaleDen, (target_kb * ScaleDen) \div 250)
    ELSE IF target_kb > 100 THEN min2((5 * ScaleDen) \div 2, (target_kb * ScaleDen) \div 100)
    ELSE (3 * ScaleDen) \div 2

\* ImageGenerator._calculate_scale_factor
calculate_scale_factor(target_kb) ==
    IF target_kb > 500 THEN min2(4 * ScaleDen, (target_kb * ScaleDen) \div 250)
    ELSE IF target_kb > 100 THEN min2((5 * ScaleDen) \div 2, (target_kb * ScaleDen) \div 100)
    ELSE (3 * ScaleDen) \div 2

\* PDFGenerator._generate_image_based_pdf, lines 165-168: the scale of the
\* image generated for the row (generate_standard_image uses 1.0)
image_scale(target_kb) ==
    IF Truthy(target_kb) /\ TheValue(target_kb) > 50
    THEN calculate_scale_factor(TheValue(target_kb))
    ELSE ScaleDen

\* PDFGenerator._embed_image_in_pdf, line 177: the JPEG quality
jpeg_quality(target_kb) ==
    IF Truthy(target_kb) /\ TheValue(target_kb) >= 100 THEN 98 ELSE 95

\* the file at a path is created or replaced
write_file(fs, f) == {g \in fs : g.name # f.name} \cup {f}

\* _generate_direct_pdf whose doc.build leaves the file behind when it raises
generate_direct_pdf_partial(fs, filename, target_kb, natural, fault, index) ==
    LET built == File(filename, natural, 0, 0, index)
    IN  IF fault \in {"render", "encode"}
        THEN [exc |-> fault,
              files |-> IF fault = "encode" THEN write_file(fs, built) ELSE fs,
              fillers |-> 0, inflate_called |-> FALSE, scale |-> 0, quality |-> 0]
        ELSE IF ~Truthy(target_kb)
        THEN [exc |-> "none", files |-> write_file(fs, built), fillers |-> 0,
              inflate_called |-> FALSE, scale |-> 0, quality |-> 0]
        ELSE IF fault = "inflate"
        THEN [exc |-> fault, files |-> write_file(fs, built),
              fillers |-> add_padding_content(TheValue(target_kb) * KB),
              inflate_called |-> TRUE, scale |-> 0, quality |-> 0]
        ELSE [exc |-> "none",
              files |-> write_file(fs, inflate_to_target_size(built, TheValue(target_kb))),
              fillers |-> add_padding_content(TheValue(target_kb) * KB),
              inflate_called |-> TRUE, scale |-> 0, quality |-> 0]

\* PDFGenerator._generate_direct_pdf
generate_direct_pdf(fs, filename, target_kb, natural, fault, index) ==
    LET fillers == IF Truthy(target_kb)
                   THEN add_padding_content(TheValue(target_kb) * KB) ELSE 0
        built == File(filename, natural, 0, 0, index)
        fs1 == write_file(fs, built)
    IN  IF fault \in {"render", "encode"}
        THEN \* create_form_content or doc.build raised: nothing written
             [exc |-> fault, files |-> fs, fillers |-> 0, inflate_called |-> FALSE,
              scale |-> 0, quality |-> 0]
        ELSE IF ~Truthy(target_kb)
        THEN [exc |-> "none", files |-> fs1, fillers |-> fillers,
              inflate_called |-> FALSE, scale |-> 0, quality |-> 0]
        ELSE IF fault = "inflate"
        THEN \* os.path.getsize or open raised inside inflate_to_target_size
             [exc |-> fault, files |-> fs1, fillers |-> fillers,
              inflate_called |-> TRUE, scale |-> 0, quality |-> 0]
        ELSE [exc |-> "none",
              files |-> write_file(fs, inflate_to_target_size(built, TheValue(target_kb))),
              fillers |-> fillers, inflate_called |-> TRUE, scale |-> 0, quality |-> 0]

\* PDFGenerator._generate_image_based_pdf and _embed_image_in_pdf
generate_image_based_pdf(fs, filename, target_kb, natural, fault, index) ==
    LET scale == image_scale(target_kb)
        quality == jpeg_quality(target_kb)
        built == File(filename, natural, 0, 0, index)
        fs1 == write_file(fs, built)
    IN  IF fault \in {"render", "encode"}
        THEN \* the image generator, image.save or doc.build raised
             [exc |-> fault, files |-> fs, fillers |-> 0, inflate_called |-> FALSE,
              scale |-> scale, quality |-> quality]
        ELSE IF ~Truthy(target_kb)
        THEN [exc |-> "none", files |-> fs1, fillers |-> 0,
              inflate_called |-> FALSE, scale |-> scale, quality |-> quality]
        ELSE IF fault = "inflate"
        THEN [exc |-> fault, files |-> fs1, fillers |-> 0,
              inflate_called |-> TRUE, scale |-> scale, quality |-> quality]
        ELSE [exc |-> "none",
              files |-> write_file(fs, inflate_to_target_size(built, TheValue(target_kb))),
              fillers |-> 0, inflate_called |-> TRUE, scale |-> scale,
              quality |-> quality]

\* the file of that name in the directory, as an Optional
file_at(fs, filename) == {f \in fs : f.name = filename}

\* data.get('file_size'): None when the table has no such column
get_file_size(data) ==
    IF data.file_size.kind = "absent" THEN Raw("null", 0) ELSE data.file_size

\* _generate_single_pdf, lines 113-117: the verification of the file the
\* generation step left, and the result of the call
verify_single_pdf(parsed, filename, gen, natural, fault) ==
    [exc |-> IF gen.exc # "none" THEN gen.exc
             ELSE IF Truthy(parsed.target_kb) /\ fault = "verify" THEN fault
             ELSE "none",
     path |-> filename,
     files |-> gen.files,
     printed |-> parsed.printed \o
                 (IF gen.exc = "none" /\ Truthy(parsed.target_kb) /\ fault # "verify"
                  THEN check_target_accuracy(TheValue(file_at(gen.files, filename)),
                                             TheValue(parsed.target_kb), filename)
                  ELSE <<>>),
     target_kb |-> parsed.target_kb,
     natural |-> natural,
     fillers |-> gen.fillers,
     inflate_called |-> gen.inflate_called,
     check_called |-> gen.exc = "none" /\ Truthy(parsed.target_kb),
     scale |-> gen.scale,
     quality |-> gen.quality]

\* _generate_single_pdf, lines 89-111: the file name, then the generation in
\* the run's mode; nothing of it happens when parse_file_size raised
render_single_pdf(parsed, fs, data, index, image, natural, fault) ==
    IF parsed.exc # "none"
    THEN [exc |-> parsed.exc, path |-> <<>>, files |-> fs, printed |-> parsed.printed,
          target_kb |-> None, natural |-> natural, fillers |-> 0,
          inflate_called |-> FALSE, check_called |-> FALSE, scale |-> 0, quality |-> 0]
    ELSE verify_single_pdf(parsed, resolve_filename(data.file_name, index),
            IF image
            THEN generate_image_based_pdf(fs, resolve_filename(data.file_name, index),
                                          parsed.target_kb, natural, fault, index)
            ELSE generate_direct_pdf(fs, resolve_filename(data.file_name, index),
                                     parsed.target_kb, natural, fault, index),
            natural, fault)

\* PDFGenerator._generate_single_pdf: the exception raised (or "none"), the
\* path returned, the directory afterwards, what was printed and what was
\* called
generate_single_pdf(fs, data, index, image, natural, fault) ==
    render_single_pdf(parse_file_size(get_file_size(data), index),
                      fs, data, index, image, natural, fault)

(***************************************************************************)
(* One row through the pipeline, over sampled directives and sizes         *)
(***************************************************************************)
MaxTargetKb == 130

SampleTargets == {1, 2, 48, 49, 50, 51, 100, 101, MaxTargetKb}

SizeRaws ==
    {Raw("absent", 0), Raw("null", 0), Raw("text", 0), Raw("nan", 0), Raw("inf", 0)}
    \cup {Raw("num", n) : n \in {-15, -10, -5, 0, 5, 9}}
    \cup {Raw("num", 10 * t + d) : t \in SampleTargets, d \in {0, 5}}

NaturalSizes ==
    {700} \cup {t * KB + d : t \in SampleTargets, d \in {-31, -30, -29, -1, 0, 1}}
          \cup {(t * KB * 12) \div 10 : t \in SampleTargets}
          \cup {(t * KB * 11) \div 10 + d : t \in SampleTargets, d \in {0, 1}}

Faults == {"none", "render", "encode", "inflate", "verify"}

RowInit ==
    /\ pc = "Init" /\ use_image = FALSE /\ data_rows = <<>> /\ row_index = 0
    /\ generated_files = <<>> /\ files = {} /\ log = <<>> /\ calls = <<>>
    /\ failed_from = "none"
    /\ \E raw \in SizeRaws, natural \in NaturalSizes, image \in BOOLEAN,
          fault \in Faults :
          arg = [data |-> [file_size |-> raw, file_name |-> None],
                 use_image |-> image, natural |-> natural, fault |-> fault]
    /\ res = [stage |-> "input"]

\* parse_file_size alone on the row's directive
ParseRow ==
    /\ res.stage = "input"
    /\ res' = [stage |-> "parsed", parsed |-> parse_file_size(get_file_size(arg.data), 0)]
    /\ UNCHANGED <<orch_vars, arg>>

\* _generate_single_pdf on the row
GenerateRow ==
    /\ res.stage = "input"
    /\ res' = [stage |-> "generated",
               out |-> generate_single_pdf({}, arg.data, 0, arg.use_image,
                                           arg.natural, arg.fault)]
    /\ UNCHANGED <<orch_vars, arg>>

\* inflate_to_target_size alone on a file of the row's natural size
InflateFile ==
    /\ res.stage = "input"
    /\ \E parsed \in {parse_file_size(get_file_size(arg.data), 0)} :
          /\ parsed.exc = "none" /\ Truthy(parsed.target_kb)
          /\ \E f \in {File(<<"0">> \o DotPdf, arg.natural, 0, 0, 0)} :
                res' = [stage |-> "inflated", target_kb |-> TheValue(parsed.target_kb),
                        before |-> f,
                        after |-> inflate_to_target_size(f, TheValue(parsed.target_kb))]
    /\ UNCHANGED <<orch_vars, arg>>

\* inflate_to_target_size once more, on the file it has just inflated
InflateAgain ==
    /\ res.stage = "inflated"
    /\ res' = [stage |-> "reinflated", target_kb |-> res.target_kb,
               before |-> res.after,
               after |-> inflate_to_target_size(res.after, res.target_kb)]
    /\ UNCHANGED <<orch_vars, arg>>

RowNext == ParseRow \/ GenerateRow \/ InflateFile \/ InflateAgain

SpecRow == RowInit /\ [][RowNext]_vars

\* the row's artifact after the pipeline, as an Optional
Artifact == file_at(res.out.files, res.out.path)

\* C1: a row with a valid positive target T whose pipeline ran to the end
\* has an artifact of at least T*1024 bytes, in both modes.
C1_SizeAtLeastTarget ==
    (res.stage = "generated" /\ res.out.exc = "none" /\ Truthy(res.out.target_kb))
    => getsize(TheValue(Artifact)) >= TheValue(res.out.target_kb) * KB

\* C2: inflating a file that is short of the target by more than the length
\* of the marker brings it to exactly target_kb*1024 bytes.
C2_InflatesToExactTarget ==
    (/\ res.stage = "generated" /\ res.out.exc = "none" /\ res.out.inflate_called
     /\ res.out.natural < TheValue(res.out.target_kb) * KB - MarkerLen)
    => getsize(TheValue(Artifact)) = TheValue(res.out.target_kb) * KB

\* the row's directive yields no target: absent or null, unparseable, or a
\* number that truncates to zero or less
NoTargetDirective(raw) ==
    \/ raw.kind \in {"absent", "null", "text", "nan", "inf"}
    \/ raw.kind = "num" /\ raw.tenths < 10

\* C3: a row without a usable size directive gets no filler blocks, no call
\* of inflate_to_target_size, no call of check_target_accuracy and no
\* target warning, and its artifact has exactly the encoder's bytes.
C3_NoTargetNoPadding ==
    (res.stage = "generated" /\ NoTargetDirective(arg.data.file_size))
    => /\ res.out.fillers = 0
       /\ ~res.out.inflate_called
       /\ ~res.out.check_called
       /\ \A k \in DOMAIN res.out.printed : res.out.printed[k].kind # "target_accuracy"
       /\ \A f \in res.out.files :
             f.marker = 0 /\ f.filler = 0 /\ getsize(f) = arg.natural
       /\ res.out.exc = "none" => Artifact # None

\* an unparseable directive's row produced an artifact of its natural size,
\* in raster mode
C3_Witness ==
    /\ res.stage = "generated" /\ arg.data.file_size.kind = "text"
    /\ arg.use_image /\ res.out.exc = "none"
    /\ Artifact # None /\ getsize(TheValue(Artifact)) = arg.natural

\* C8: parse_file_size never raises and returns None or a positive integer;
\* it warns exactly when the coercion fails.
C8_ParseNeverRaises ==
    res.stage = "parsed"
    => /\ res.parsed.exc = "none"
       /\ \A t \in res.parsed.target_kb : t > 0
       /\ (res.parsed.printed # <<>>) <=> (arg.data.file_size.kind \notin {"absent", "null", "num"})

\* C16: inflate_to_target_size only appends: a file already at or over
\* target_kb*1024 bytes is left as it is; otherwise what the file held stays
\* as the prefix of the result, and the size never goes down.
C16_InflateAppendOnly ==
    res.stage \in {"inflated", "reinflated"}
    => /\ getsize(res.before) >= res.target_kb * KB => res.after = res.before
       /\ getsize(res.before) < res.target_kb * KB
          => res.after.marker = res.before.marker + MarkerLen
       /\ res.after.name = res.before.name
       /\ res.after.encoded = res.before.encoded
       /\ res.after.marker >= res.before.marker
       /\ res.after.filler >= res.before.filler
       /\ getsize(res.after) >= getsize(res.before)

\* a file short of the target got marker and filler after its own bytes
C16_Witness ==
    /\ res.stage = "inflated"
    /\ getsize(res.before) < res.target_kb * KB
    /\ res.after.encoded = res.before.encoded /\ res.before.encoded > 0
    /\ res.after.filler > 0

\* the target warning was printed for the row
TargetWarned ==
    \E k \in DOMAIN res.out.printed : res.out.printed[k].kind = "target_accuracy"

\* C17: for a row with a valid target T whose steps did not fail, the
\* target warning is printed exactly when the natural size is over T*1024
\* by more than a tenth of it; a natural size of at most T*1024 gives an
\* inflated artifact within the tolerance and no warning; the verification
\* leaves the file as inflation left it and does not raise.
C17_WarnsExactlyWhenOversized ==
    (/\ res.stage = "generated" /\ arg.fault = "none"
     /\ res.out.exc # "OverflowError" /\ Truthy(res.out.target_kb))
    => \E T \in res.out.target_kb :
         /\ res.out.exc = "none" /\ res.out.check_called
         /\ TargetWarned <=> (arg.natural - T * KB) * 10 > T * KB
         /\ arg.natural <= T * KB
            => /\ ~TargetWarned
               /\ abs(getsize(TheValue(Artifact)) - T * KB) * 10 <= T * KB
         /\ Artifact = {inflate_to_target_size(
                            File(res.out.path, arg.natural, 0, 0, 0), T)}

\* a natural size more than a tenth over the target was warned about
C17_Witness ==
    /\ res.stage = "generated" /\ arg.fault = "none" /\ Truthy(res.out.target_kb)
    /\ res.out.exc = "none" /\ TargetWarned
    /\ \E T \in res.out.target_kb : arg.natural = (T * KB * 11) \div 10 + 1

(***************************************************************************)
(* The raster scale factor over target sizes                               *)
(***************************************************************************)
MaxScaleKb == 1100

ScaleStarts == {1, 50, 51, 100, 101, 500, 501, 1000}

ScaleInit ==
    /\ pc = "Init" /\ use_image = TRUE /\ data_rows = <<>> /\ row_index = 0
    /\ generated_files = <<>> /\ files = {} /\ log = <<>> /\ calls = <<>>
    /\ failed_from = "none"
    /\ \E t \in ScaleStarts : arg = [t1 |-> t, t2 |-> t]
    /\ res = [stage |-> "input"]

\* a larger second target
RaiseTarget ==
    /\ res.stage = "input" /\ arg.t2 < MaxScaleKb
    /\ arg' = [arg EXCEPT !.t2 = @ + 1]
    /\ UNCHANGED <<orch_vars, res>>

\* the scale of the image generated for each of the two targets
ScaleBoth ==
    /\ res.stage = "input"
    /\ res' = [stage |-> "scaled", s1 |-> image_scale(Some(arg.t1)),
               s2 |-> image_scale(Some(arg.t2))]
    /\ UNCHANGED <<orch_vars, arg>>

ScaleNext == RaiseTarget \/ ScaleBoth

SpecScale == ScaleInit /\ [][ScaleNext]_vars

\* C6: the raster scale factor is non-decreasing in target_kb (1.0 on the
\* standard path) and never below 1.0.
C6_ScaleMonotone ==
    res.stage = "scaled"
    => /\ res.s1 <= res.s2
       /\ res.s1 >= ScaleDen /\ res.s2 >= ScaleDen

(***************************************************************************)
(* PDFGenerator.generate_all_pdfs.  The database is the environment: the   *)
(* table may be missing, the query may fail, and the rows are any table of *)
(* at most MaxRows rows.                                                   *)
(***************************************************************************)
OrchSizes == {Raw("null", 0), Raw("num", 10), Raw("text", 0), Raw("inf", 0)}
OrchNames == {None, Some(<<"a">>)}
OrchNatural == 700

Tables ==
    UNION { [1..n -> [file_size : OrchSizes, file_name : OrchNames]]
            \cup [1..n -> [file_size : {Raw("absent", 0)}, file_name : OrchNames]]
            : n \in 0..MaxRows }

Init ==
    /\ pc = "Init" /\ use_image \in BOOLEAN /\ data_rows = <<>> /\ row_index = 0
    /\ generated_files = <<>> /\ files = {} /\ log = <<>> /\ calls = <<>>
    /\ failed_from = "none"
    /\ arg = <<>> /\ res = <<>>

\* generate_all_pdfs is called
Begin ==
    /\ pc = "Init"
    /\ pc' = "Validating"
    /\ UNCHANGED <<use_image, data_rows, row_index, generated_files, files, log,
                   calls, failed_from, arg, res>>

\* generate_all_pdfs, lines 59-61: validate_table_exists returns False when
\* the table is missing or sqlite raises
Validate ==
    /\ pc = "Validating"
    /\ \E exists \in BOOLEAN :
          IF exists THEN pc' = "Fetching" /\ failed_from' = failed_from
          ELSE pc' = "Failed" /\ failed_from' = "Validating"
    /\ UNCHANGED <<use_image, data_rows, row_index, generated_files, files, log,
                   calls, arg, res>>

\* generate_all_pdfs, line 64: get_all_rows raises sqlite3.Error
FetchFails ==
    /\ pc = "Fetching"
    /\ pc' = "Failed" /\ failed_from' = "Fetching"
    /\ UNCHANGED <<use_image, data_rows, row_index, generated_files, files, log,
                   calls, arg, res>>

\* generate_all_pdfs, lines 64-69: the rows are fetched; no rows, no work
Fetch ==
    /\ pc = "Fetching"
    /\ \E rows \in Tables :
          /\ data_rows' = rows
          /\ log' = log \o <<[kind |-> "found", rows |-> Len(rows)]>>
                        \o (IF rows = <<>> THEN <<[kind |-> "no_data"]>> ELSE <<>>)
          /\ pc' = IF rows = <<>> THEN "Done" ELSE "PerRowLoop"
    /\ UNCHANGED <<use_image, row_index, generated_files, files, calls,
                   failed_from, arg, res>>

\* the per-row try/except with no except clause
after_row_uncaught(exc) == IF exc = "none" THEN "PerRowLoop" ELSE "Failed"

\* generate_all_pdfs, lines 74-79: "except Exception" catches whatever the
\* row raised and the loop goes on
after_row(exc) == "PerRowLoop"

\* generate_all_pdfs, lines 73-79: one iteration of the loop
ProcessRow ==
    /\ pc = "PerRowLoop" /\ row_index < Len(data_rows)
    /\ \E fault \in Faults :
          \E out \in {generate_single_pdf(files, data_rows[row_index + 1], row_index,
                                          use_image, OrchNatural, fault)} :
              /\ files' = out.files
              /\ calls' = Append(calls, [index |-> row_index, fault |-> fault, out |-> out])
              /\ generated_files' = IF out.exc = "none"
                                    THEN Append(generated_files, out.path)
                                    ELSE generated_files
              /\ log' = log \o out.printed
                            \o <<IF out.exc = "none"
                                 THEN [kind |-> "generated", path |-> out.path]
                                 ELSE [kind |-> "row_error", row |-> row_index,
                                       exc |-> out.exc]>>
              /\ pc' = after_row(out.exc)
              /\ failed_from' = IF after_row(out.exc) = "Failed" THEN "PerRowLoop"
                                ELSE failed_from
    /\ row_index' = row_index + 1
    /\ UNCHANGED <<use_image, data_rows, arg, res>>

\* the end of the loop with the call of _print_summary left out
EndLoop_without_summary ==
    /\ pc = "PerRowLoop" /\ row_index = Len(data_rows)
    /\ pc' = "Done"
    /\ UNCHANGED <<use_image, data_rows, row_index, generated_files, files, log,
                   calls, failed_from, arg, res>>

\* the for loop is exhausted
EndLoop ==
    /\ pc = "PerRowLoop" /\ row_index = Len(data_rows)
    /\ pc' = "Summarizing"
    /\ UNCHANGED <<use_image, data_rows, row_index, generated_files, files, log,
                   calls, failed_from, arg, res>>

\* _print_summary, lines 221-222: what the parse of rows k..last prints
RECURSIVE summary_printed(_, _, _)
summary_printed(rows, k, last) ==
    IF k > last THEN <<>>
    ELSE parse_file_size(get_file_size(rows[k]), 0).printed
         \o summary_printed(rows, k + 1, last)

\* _print_summary, lines 220-224: parse_file_size(row.get('file_size'), 0) row
\* by row, up to the first row whose parse raises
summary_sizes(rows) ==
    LET raising == {k \in DOMAIN rows :
                       parse_file_size(get_file_size(rows[k]), 0).exc # "none"}
        last == IF raising = {} THEN Len(rows) ELSE Min(raising)
    IN  [exc |-> IF raising = {} THEN "none"
                 ELSE parse_file_size(get_file_size(rows[last]), 0).exc,
         printed |-> summary_printed(rows, 1, last),
         sizes |-> UNION {parse_file_size(get_file_size(rows[k]), 0).target_kb :
                            k \in 1..last}]

\* PDFGenerator._print_summary
print_summary(generated, rows) ==
    LET completed == <<[kind |-> "completed", generated |-> Len(generated)]>>
        scanned == IF rows # <<>> /\ rows[1].file_size.kind # "absent"
                   THEN summary_sizes(rows)
                   ELSE [exc |-> "none", printed |-> <<>>, sizes |-> {}]
    IN  [exc |-> scanned.exc,
         printed |-> completed \o scanned.printed
                     \o (IF scanned.exc = "none" /\ scanned.sizes # {}
                         THEN <<[kind |-> "range", lo |-> Min(scanned.sizes),
                                 hi |-> Max(scanned.sizes)]>>
                         ELSE <<>>)]

\* generate_all_pdfs, line 82
Summarize ==
    /\ pc = "Summarizing"
    /\ \E summary \in {print_summary(generated_files, data_rows)} :
           /\ log' = log \o summary.printed
           /\ pc' = IF summary.exc = "none" THEN "Done" ELSE "Failed"
           /\ failed_from' = IF summary.exc = "none" THEN failed_from
                             ELSE "Summarizing"
    /\ UNCHANGED <<use_image, data_rows, row_index, generated_files, files,
                   calls, arg, res>>

Next == Begin \/ Validate \/ FetchFails \/ Fetch \/ ProcessRow \/ EndLoop \/ Summarize

Spec == Init /\ [][Next]_vars

\* the rows that raised, and those that did not, among the rows processed
Raised(k) == calls[k].out.exc # "none"

\* C7: an exception raised while processing a row is caught at the per-row
\* boundary: the loop never aborts the run, the rows are processed one by
\* one in order, all of them by the time the loop is over, and every row
\* that did not raise has its artifact produced and listed, whatever
\* happened to the other rows.
C7_RowFailureIsolated ==
    /\ failed_from # "PerRowLoop"
    /\ Len(calls) = row_index
    /\ \A k \in DOMAIN calls : calls[k].index = k - 1
    /\ (pc \in {"Summarizing", "Done"} \/ failed_from = "Summarizing")
          => row_index = Len(data_rows)
    /\ \A k \in DOMAIN calls :
          ~Raised(k) => /\ calls[k].out.path \in Range(generated_files)
                        /\ file_at(files, calls[k].out.path) # None
    /\ Len(generated_files) = Cardinality({k \in DOMAIN calls : ~Raised(k)})

\* the first row raised, the second row's artifact was produced and listed
C7_Witness ==
    /\ pc = "Summarizing" /\ Len(calls) >= 2
    /\ Raised(1) /\ ~Raised(2)
    /\ generated_files[1] = calls[2].out.path
    /\ file_at(files, calls[2].out.path) # None

\* C9: a malformed size directive is advisory only: its row is rendered and
\* its artifact produced with no target, and the run goes through the
\* remaining rows and the summary without raising to the caller.
C9_MalformedIsAdvisory ==
    /\ \A k \in DOMAIN calls :
          (data_rows[k].file_size.kind \in {"text", "nan"} /\ calls[k].fault = "none")
          => /\ ~Raised(k)
             /\ calls[k].out.target_kb = None
             /\ file_at(files, calls[k].out.path) # None
    /\ (\E k \in DOMAIN data_rows : data_rows[k].file_size.kind \in {"text", "nan"})
          => failed_from \notin {"PerRowLoop", "Summarizing"}

SummaryReported == \E k \in DOMAIN log : log[k].kind = "completed"

\* C11: every run that validated the table and fetched the rows reports the
\* summary before it is done, whatever the number of rows, zero included.
C11_SummaryBeforeDone ==
    pc = "Done" => SummaryReported

\* C11 as amended: every run that fetched at least one row reports the summary
\* (with the number of artifacts listed) before it is done, also when every
\* row failed; a run that fetched no rows prints "No data found" and is done
\* without a summary.
C11_SummaryUnlessNoRows ==
    /\ pc = "Done" =>
          IF data_rows = <<>>
          THEN ~SummaryReported /\ \E k \in DOMAIN log : log[k].kind = "no_data"
          ELSE /\ log[Len(log)].kind \in {"completed", "invalid_file_size", "range"}
               /\ \E k \in DOMAIN log :
                     /\ log[k].kind = "completed"
                     /\ log[k].generated = Len(generated_files)
                     /\ \A j \in DOMAIN log :
                           log[j].kind \in {"generated", "row_error"} => j < k
    /\ SummaryReported => (pc \in {"Done", "Failed"} /\ row_index = Len(data_rows))

\* every row failed and the summary was reported all the same
C11_Witness ==
    /\ pc = "Done" /\ SummaryReported
    /\ Len(data_rows) >= 2 /\ generated_files = <<>>
    /\ \A k \in DOMAIN calls : Raised(k)

\* the rows whose file name was resolved (their parse did not raise)
Named(k) == calls[k].out.path # <<>>

\* C13: no two rows of a run resolve to the same output path, so a file
\* written for one row is never written again for a later row.
C13_PathsUnique ==
    /\ \A j, k \in DOMAIN calls :
          (j # k /\ Named(j) /\ Named(k)) => calls[j].out.path # calls[k].out.path
    /\ \A k \in DOMAIN calls :
          ~Raised(k) => \A f \in file_at(files, calls[k].out.path) :
                            f.writer = calls[k].index

\* C19: every 'invalid file_size' warning printed during a run names the
\* index of the row that carries the malformed value, in the per-row loop
\* and in the summary.
C19_WarningNamesItsRow ==
    \A k \in DOMAIN log :
        log[k].kind = "invalid_file_size"
        => /\ log[k].row + 1 \in DOMAIN data_rows
           /\ data_rows[log[k].row + 1].file_size = log[k].value

\* the names of the files in the output directory
FileNames == {f.name : f \in files}

\* C20: when the loop is over, the paths reported as generated are exactly
\* the files in the output directory: a row that raised left no file.
C20_ListedEqualsWritten ==
    pc \in {"Summarizing", "Done"} => Range(generated_files) = FileNames

\* C20 as amended: when the loop is over, every path reported as generated
\* is a file in the output directory, and a file that is not reported was
\* left by a row that raised after the encoder had written it, in
\* inflate_to_target_size or in check_target_accuracy; a row that raised
\* earlier left nothing.
C20_ListedAreWritten ==
    pc \in {"Summarizing", "Done"} =>
        /\ Range(generated_files) \subseteq FileNames
        /\ \A f \in files :
              f.name \notin Range(generated_files)
              => \E k \in DOMAIN calls :
                    /\ calls[k].index = f.writer /\ calls[k].out.path = f.name
                    /\ calls[k].out.exc \in {"inflate", "verify"}
        /\ \A k \in DOMAIN calls :
              calls[k].out.exc \in {"OverflowError", "render", "encode"}
              => \A f \in files : f.writer # calls[k].index

\* a row raised in inflation and its file stayed, unlisted
C20_Witness ==
    /\ pc = "Summarizing"
    /\ \E k \in DOMAIN calls :
          /\ calls[k].out.exc = "inflate"
          /\ calls[k].out.path \in FileNames
          /\ calls[k].out.path \notin Range(generated_files)

(***************************************************************************)
(* The file names tried: a run of 'a' of a length near the cap (or none),  *)
(* followed by up to MaxPieces pieces.                                     *)
(***************************************************************************)
Pieces == { <<"a">>, <<"_">>, <<".">>, <<"/">>, <<" ">>, <<"!">>,
            <<".",".","/">>, <<".","p","d","f">>, <<".","P","D","F">> }

RECURSIVE Flatten(_)
Flatten(ps) == IF ps = <<>> THEN <<>> ELSE Head(ps) \o Flatten(Tail(ps))

PieceSeqs == UNION { [1..n -> Pieces] : n \in 0..MaxPieces }

PadLens == {0} \cup (MaxNameLen - 2)..MaxNameLen

Pad(n) == [k \in 1..n |-> "a"]

NameInputs == { Pad(n) \o Flatten(ps) : n \in PadLens, ps \in PieceSeqs }

NameInit ==
    /\ pc = "Init" /\ use_image = FALSE /\ data_rows = <<>> /\ row_index = 0
    /\ generated_files = <<>> /\ files = {} /\ log = <<>> /\ calls = <<>>
    /\ failed_from = "none"
    /\ \/ \E s \in NameInputs : arg = [custom_filename |-> Some(s), row_index |-> 0]
       \/ \E idx \in 0..MaxRows : arg = [custom_filename |-> None, row_index |-> idx]
    /\ res = [stage |-> "input", text |-> <<>>, prev |-> <<>>]

\* one call of _sanitize_filename on the directive
Sanitize ==
    /\ res.stage = "input" /\ arg.custom_filename # None
    /\ res' = [stage |-> "sanitized",
               text |-> sanitize_filename(TheValue(arg.custom_filename)),
               prev |-> TheValue(arg.custom_filename)]
    /\ UNCHANGED <<orch_vars, arg>>

\* _sanitize_filename applied to its own result
Resanitize ==
    /\ res.stage = "sanitized"
    /\ res' = [stage |-> "resanitized",
               text |-> sanitize_filename(res.text),
               prev |-> res.text]
    /\ UNCHANGED <<orch_vars, arg>>

\* the orchestrator's filename resolution for the row
Resolve ==
    /\ res.stage = "input"
    /\ res' = [stage |-> "resolved",
               text |-> resolve_filename(arg.custom_filename, arg.row_index),
               prev |-> <<>>]
    /\ UNCHANGED <<orch_vars, arg>>

NameNext == Sanitize \/ Resanitize \/ Resolve

SpecName == NameInit /\ [][NameNext]_vars

\* C4: sanitizing an already sanitized name yields the same name, for names
\* of every length, those longer than the length cap included.
C4_SanitizeIdempotent ==
    res.stage = "resanitized" => res.text = res.prev

\* C5: the file name resolved for a custom directive is non-empty, has no
\* '/' and no '..' in it, and ends in '.pdf'.
C5_ResolvedNameSafe ==
    (res.stage = "resolved" /\ arg.custom_filename # None
        /\ TheValue(arg.custom_filename) # <<>>)
    => /\ res.text # <<>>
       /\ "/" \notin Range(res.text)
       /\ ~contains(res.text, <<".", ".">>)
       /\ endswith(res.text, DotPdf)

\* C5 as amended: the file name resolved for a custom directive is
\* non-empty, has no '/' in it, does not start with a dot (so it is neither
\* '.' nor '..', though it may have '..' inside it), and ends in '.pdf' up
\* to letter case; hence the output path lies directly inside the output
\* directory.
C5_ResolvedNameInsideDir ==
    (res.stage = "resolved" /\ arg.custom_filename # None
        /\ TheValue(arg.custom_filename) # <<>>)
    => /\ res.text # <<>>
       /\ "/" \notin Range(res.text)
       /\ Head(res.text) # "."
       /\ endswith(lower(res.text), DotPdf)

\* a traversal attempt was resolved to a name
C5_Witness ==
    /\ res.stage = "resolved" /\ arg.custom_filename # None
    /\ contains(TheValue(arg.custom_filename), <<".", ".", "/">>)
    /\ res.text = <<"a">> \o DotPdf

\* C12: a file name directive that is non-empty once trimmed is used
\* (sanitized, '.pdf' appended when missing); an absent, null, empty or
\* whitespace-only directive gives '<row_index>.pdf'.
C12_FilenamePrecedence ==
    res.stage = "resolved" =>
        IF arg.custom_filename # None
           /\ strip_ws(TheValue(arg.custom_filename)) # <<>>
        THEN \E name \in {sanitize_filename(strip_ws(TheValue(arg.custom_filename)))} :
                res.text = IF endswith(lower(name), DotPdf) THEN name
                           ELSE name \o DotPdf
        ELSE res.text = int_str(arg.row_index) \o DotPdf

(***************************************************************************)
(* What a row shows: ContentGenerator.create_form_content and the canvas   *)
(* of ImageGenerator.  A row is the sequence of its columns, each a key    *)
(* and an Optional text; lengths on the canvas are pixels.                 *)
(***************************************************************************)
MaxFields == 10
MaxImageKb == 1100

BaseWidth == 612
BaseHeight == 792
TitleY == 50
TitleHeight == 60
MaxRepetitions == 5
RepetitionStep == 200

FileSizeKey == <<"f","i","l","e","_","s","i","z","e">>
FileNameKey == <<"f","i","l","e","_","n","a","m","e">>
Title == <<"U","s","e","r","s">>
NotAvailable == <<"N","/","A">>

LetterSet == Range(UpperLetters) \cup Range(LowerLetters)

\* str.upper() on one character
upper_char(c) ==
    IF c \in Range(LowerLetters)
    THEN UpperLetters[CHOOSE k \in 1..26 : LowerLetters[k] = c]
    ELSE c

\* str.title(): a letter after a letter is lowered, any other letter raised
title(s) ==
    [k \in DOMAIN s |-> IF k > 1 /\ s[k - 1] \in LetterSet
                        THEN lower_char(s[k]) ELSE upper_char(s[k])]

\* str.replace('_', ' ')
replace_underscores(s) == [k \in DOMAIN s |-> IF s[k] = "_" THEN " " ELSE s[k]]

\* ContentGenerator._format_field_name, and the same expression in
\* _draw_form_fields
format_field_name(field_name) == title(replace_underscores(field_name))

label_text(key) == format_field_name(key) \o <<":">>

\* str(value) if value is not None else "N/A"
value_str(value) == IF value = None THEN NotAvailable ELSE TheValue(value)

\* the display data with the two directive columns kept in
display_data_all(data) == data

\* PDFGenerator._generate_single_pdf, line 93: the columns shown
display_data(data) ==
    SelectSeq(data, LAMBDA c : c.key \notin {FileSizeKey, FileNameKey})

\* ContentGenerator.create_form_content: the paragraphs, in order
create_form_content(data) ==
    <<[kind |-> "title", text |-> Title]>>
    \o [i \in 1..(2 * Len(data)) |->
          IF i % 2 = 1
          THEN [kind |-> "label", text |-> label_text(data[(i + 1) \div 2].key)]
          ELSE [kind |-> "value", text |-> value_str(data[i \div 2].value)]]

\* the products k * scale_factor that binary floating point leaves just
\* under the whole number the exact product is, as <<k, scale * ScaleDen>>
FloatShort ==
    {<<25, 580>>, <<25, 1140>>, <<25, 1160>>,
     <<50, 570>>, <<50, 580>>, <<50, 1130>>, <<50, 1140>>, <<50, 1150>>,
     <<50, 1160>>,
     <<100, 565>>, <<100, 570>>, <<100, 575>>, <<100, 580>>, <<100, 1005>>,
     <<100, 1015>>, <<100, 1025>>, <<100, 1035>>, <<100, 1130>>,
     <<100, 1140>>, <<100, 1150>>, <<100, 1160>>}

\* int(k * scale_factor)
int_scaled(k, scale) ==
    (k * scale) \div ScaleDen - (IF <<k, scale>> \in FloatShort THEN 1 ELSE 0)

\* ImageGenerator._draw_title: what it draws
draw_title == [kind |-> "title", text |-> Title, y |-> TitleY, rep |-> 0]

\* _draw_form_fields, line 86
repetitions_for(target_kb) ==
    Max({1, min2(MaxRepetitions,
                 (IF Truthy(target_kb) THEN TheValue(target_kb) ELSE 0)
                     \div RepetitionStep)})

section_text(rep) == <<"S","e","c","t","i","o","n"," ">> \o int_str(rep + 1)

RECURSIVE draw_repetitions(_, _, _, _, _, _, _)
RECURSIVE draw_fields(_, _, _, _, _, _, _, _)

\* the loop over the fields without the test of line 95
draw_fields_unchecked(data, scale, height, repetitions, rep, f, y_pos, drawn) ==
    IF f > Len(data)
    THEN draw_repetitions(data, scale, height, repetitions, rep + 1,
                          y_pos + int_scaled(30, scale), drawn)
    ELSE draw_fields(data, scale, height, repetitions, rep, f + 1,
             y_pos + int_scaled(25, scale) + int_scaled(40, scale),
             drawn \o <<[kind |-> "label", text |-> label_text(data[f].key),
                         y |-> y_pos, rep |-> rep],
                        [kind |-> "value", text |-> value_str(data[f].value),
                         y |-> y_pos + int_scaled(25, scale), rep |-> rep]>>)

\* _draw_form_fields, lines 94-107: the loop over the fields, from field f
draw_fields(data, scale, height, repetitions, rep, f, y_pos, drawn) ==
    IF f > Len(data)
    THEN draw_repetitions(data, scale, height, repetitions, rep + 1,
                          y_pos + int_scaled(30, scale), drawn)
    ELSE IF y_pos > height - int_scaled(100, scale)
    THEN [y_pos |-> y_pos, drawn |-> drawn, truncated |-> TRUE]
    ELSE draw_fields(data, scale, height, repetitions, rep, f + 1,
             y_pos + int_scaled(25, scale) + int_scaled(40, scale),
             drawn \o <<[kind |-> "label", text |-> label_text(data[f].key),
                         y |-> y_pos, rep |-> rep],
                        [kind |-> "value", text |-> value_str(data[f].value),
                         y |-> y_pos + int_scaled(25, scale), rep |-> rep]>>)

\* _draw_form_fields, lines 88-109: the loop over the repetitions, from rep
draw_repetitions(data, scale, height, repetitions, rep, y_pos, drawn) ==
    IF rep >= repetitions
    THEN [y_pos |-> y_pos, drawn |-> drawn, truncated |-> FALSE]
    ELSE IF rep > 0
    THEN draw_fields(data, scale, height, repetitions, rep, 1,
                     y_pos + int_scaled(40, scale),
                     Append(drawn, [kind |-> "section", text |-> section_text(rep),
                                    y |-> y_pos, rep |-> rep]))
    ELSE draw_fields(data, scale, height, repetitions, rep, 1, y_pos, drawn)

\* ImageGenerator._draw_form_fields
draw_form_fields(data, scale, start_y, height, target_kb) ==
    draw_repetitions(data, scale, height, repetitions_for(target_kb), 0,
                     start_y, <<>>)

\* ImageGenerator._create_image: the canvas and what was drawn on it
create_image(data, width, height, scale, target_kb) ==
    [width |-> width, height |-> height, scale |-> scale,
     repetitions |-> repetitions_for(target_kb),
     title |-> draw_title,
     fields |-> draw_form_fields(data, scale, TitleY + TitleHeight, height,
                                 target_kb)]

\* ImageGenerator.generate_standard_image
generate_standard_image(data) ==
    create_image(data, BaseWidth, BaseHeight, ScaleDen, None)

\* ImageGenerator.generate_large_image
generate_large_image(data, target_kb) ==
    create_image(data,
                 int_scaled(BaseWidth, calculate_scale_factor(target_kb)),
                 int_scaled(BaseHeight, calculate_scale_factor(target_kb)),
                 calculate_scale_factor(target_kb), Some(target_kb))

\* PDFGenerator._generate_image_based_pdf, lines 165-168
generate_row_image(data, target_kb) ==
    IF Truthy(target_kb) /\ TheValue(target_kb) > 50
    THEN generate_large_image(data, TheValue(target_kb))
    ELSE generate_standard_image(data)

(***************************************************************************)
(* One raster render, over the targets and the numbers of fields           *)
(***************************************************************************)
Field(k) == [key |-> <<"c", "_">> \o int_str(k),
             value |-> IF k % 2 = 1 THEN Some(<<"v">>) ELSE None]

ImageInit ==
    /\ pc = "Init" /\ use_image = TRUE /\ data_rows = <<>> /\ row_index = 0
    /\ generated_files = <<>> /\ files = {} /\ log = <<>> /\ calls = <<>>
    /\ failed_from = "none"
    /\ \E n \in 0..MaxFields,
          target_kb \in {None} \cup {Some(t) : t \in 1..MaxImageKb} :
          arg = [data |-> [k \in 1..n |-> Field(k)], target_kb |-> target_kb]
    /\ res = [stage |-> "input"]

\* the image _generate_image_based_pdf has generated for the row
RenderImage ==
    /\ res.stage = "input"
    /\ res' = [stage |-> "image",
               image |-> generate_row_image(arg.data, arg.target_kb)]
    /\ UNCHANGED <<orch_vars, arg>>

ImageNext == RenderImage

SpecImage == ImageInit /\ [][ImageNext]_vars

\* the marks of one kind drawn on the canvas
Drawn(kind) == {k \in DOMAIN res.image.fields.drawn :
                   res.image.fields.drawn[k].kind = kind}

\* C14: the canvas, the scale and the repetitions of a raster render follow
\* the reference rule: without a target or with one of at most 50 KB a
\* 612x792 canvas at scale 1.0, one repetition and no section marker;
\* otherwise the scale is min(4.0, t/250) over 500 KB, min(2.5, t/100) over
\* 100 KB and 1.5 below, the canvas is 612 and 792 times the scale, cut to
\* whole pixels, and the repetitions are max(1, min(5, t // 200)).
C14_RenderParameters ==
    res.stage = "image" =>
        IF arg.target_kb = None \/ (\A t \in arg.target_kb : t <= 50)
        THEN /\ res.image.width = 612 /\ res.image.height = 792
             /\ res.image.scale = ScaleDen
             /\ res.image.repetitions = 1
             /\ Drawn("section") = {}
        ELSE \E t \in arg.target_kb :
             /\ t > 500 => res.image.scale * 250 = ScaleDen * min2(1000, t)
             /\ (t > 100 /\ t <= 500)
                => res.image.scale * 100 = ScaleDen * min2(250, t)
             /\ t <= 100 => res.image.scale * 2 = ScaleDen * 3
             /\ res.image.width * ScaleDen <= 612 * res.image.scale
             /\ 612 * res.image.scale < (res.image.width + 1) * ScaleDen
             /\ res.image.height * ScaleDen <= 792 * res.image.scale
             /\ 792 * res.image.scale < (res.image.height + 1) * ScaleDen
             /\ res.image.repetitions \in 1..5
             /\ t < 400 => res.image.repetitions = 1
             /\ (t >= 400 /\ t < 1000)
                => /\ res.image.repetitions * 200 <= t
                   /\ t < (res.image.repetitions + 1) * 200
             /\ t >= 1000 => res.image.repetitions = 5
             /\ t = 600 => /\ res.image.scale * 10 = ScaleDen * 24
                           /\ res.image.repetitions = 3
             /\ t = 500 => res.image.scale * 2 = ScaleDen * 5

\* the render for 600 KB: scale 2.4, three repetitions, two section markers
C14_Witness ==
    /\ res.stage = "image" /\ arg.target_kb = Some(600) /\ Len(arg.data) = 1
    /\ res.image.scale * 10 = ScaleDen * 24
    /\ res.image.width = 1468 /\ res.image.height = 1900
    /\ res.image.repetitions = 3
    /\ Cardinality(Drawn("section")) = 2

\* C18: in a raster render every label, value and section marker starts
\* inside the canvas; once a field would start below the bottom margin the
\* drawing stops for good: no field and no section marker follows it.
C18_DrawnInsideCanvas ==
    res.stage = "image" =>
        /\ \A k \in DOMAIN res.image.fields.drawn :
              /\ res.image.fields.drawn[k].y >= 0
              /\ res.image.fields.drawn[k].y < res.image.height
        /\ \A k \in Drawn("label") :
              res.image.fields.drawn[k].y
                  <= res.image.height - int_scaled(100, res.image.scale)
        /\ res.image.title.y < res.image.height
        /\ \A j, k \in DOMAIN res.image.fields.drawn :
              j < k => res.image.fields.drawn[j].y < res.image.fields.drawn[k].y
        /\ IF res.image.fields.truncated
           THEN /\ res.image.fields.y_pos
                       > res.image.height - int_scaled(100, res.image.scale)
                /\ Cardinality(Drawn("label"))
                       < res.image.repetitions * Len(arg.data)
                /\ \A k \in DOMAIN res.image.fields.drawn :
                      res.image.fields.drawn[k].y < res.image.fields.y_pos
           ELSE /\ Cardinality(Drawn("label"))
                       = res.image.repetitions * Len(arg.data)
                /\ Cardinality(Drawn("section")) = res.image.repetitions - 1
        /\ Cardinality(Drawn("value")) = Cardinality(Drawn("label"))

\* a render cut short in a later repetition, after a section marker
C18_Witness ==
    /\ res.stage = "image" /\ res.image.fields.truncated
    /\ res.image.repetitions >= 2
    /\ Drawn("section") # {}
    /\ \E k \in Drawn("label") : res.image.fields.drawn[k].rep >= 1

(***************************************************************************)
(* The texts of a row without a target, rendered twice in one mode         *)
(***************************************************************************)
ColumnKeys == {<<"i","d">>, <<"f","i","r","s","t","_","n","a","m","e">>,
               FileSizeKey, FileNameKey}

\* the rows over these columns: distinct keys in any order, each
\* value null or a text that is no number
RowsOfColumns ==
    UNION {{r \in [1..n -> [key : ColumnKeys, value : {None, Some(<<"x">>)}]] :
               \A i, j \in 1..n : i # j => r[i].key # r[j].key}
           : n \in 0..Cardinality(ColumnKeys)}

\* the label and value texts among what was laid out, in order
texts_of(marks) ==
    [k \in DOMAIN SelectSeq(marks, LAMBDA m : m.kind \in {"label", "value"}) |->
        [kind |-> SelectSeq(marks, LAMBDA m : m.kind \in {"label", "value"})[k].kind,
         text |-> SelectSeq(marks, LAMBDA m : m.kind \in {"label", "value"})[k].text]]

\* _generate_single_pdf for a row without a target, lines 93 and 108-111:
\* the texts the row's artifact shows
row_texts(data, image) ==
    IF image
    THEN texts_of(generate_row_image(display_data(data), None).fields.drawn)
    ELSE texts_of(create_form_content(display_data(data)))

ContentInit ==
    /\ pc = "Init" /\ use_image = FALSE /\ data_rows = <<>> /\ row_index = 0
    /\ generated_files = <<>> /\ files = {} /\ log = <<>> /\ calls = <<>>
    /\ failed_from = "none"
    /\ \E data \in RowsOfColumns, image \in BOOLEAN :
          arg = [data |-> data, use_image |-> image]
    /\ res = [stage |-> "input"]

\* the first run of the pipeline on the row
FirstRun ==
    /\ res.stage = "input"
    /\ res' = [stage |-> "run1", first |-> row_texts(arg.data, arg.use_image)]
    /\ UNCHANGED <<orch_vars, arg>>

\* the second run, on the same row in the same mode
SecondRun ==
    /\ res.stage = "run1"
    /\ res' = [stage |-> "run2", first |-> res.first,
               second |-> row_texts(arg.data, arg.use_image)]
    /\ UNCHANGED <<orch_vars, arg>>

ContentNext == FirstRun \/ SecondRun

SpecContent == ContentInit /\ [][ContentNext]_vars

\* the positions of the row's columns that are not directives, in order
ShownColumns ==
    SelectSeq([k \in DOMAIN arg.data |-> k],
              LAMBDA k : arg.data[k].key \notin {FileSizeKey, FileNameKey})

====
